---- MODULE Spec2Model ----
(***************************************************************************)
(* Model of create_icons.py (the minimal PNG encoder: create_png and       *)
(* create_chunk) and of the generate_category loop of                      *)
(* scripts/generate_images.py.                                             *)
(*                                                                         *)
(* Bytes are integers in 0..255, byte strings are sequences of bytes.      *)
(* 32-bit quantities that do not fit a model integer (CRC-32 values, the   *)
(* operands of struct.pack('>I')) are kept as 32-element bit vectors       *)
(* or as two 16-bit words <<hi, lo>>.                                      *)
(***************************************************************************)
EXTENDS Integers, Sequences, FiniteSets, TLC

VARIABLES frame, pk, ck, gc

vars == <<frame, pk, ck, gc>>

(***************************************************************************)
(* Bounds of the model.                                                    *)
(***************************************************************************)
MaxDim == 3
ParMaxDim == 2
MaxPayload == 3
MaxItems == 3

(***************************************************************************)
(* Byte-level helpers.                                                     *)
(***************************************************************************)
Pow2(n) == 2 ^ n

\* struct.pack('>I', n) for n given as two 16-bit words: big-endian, 4 bytes.
pack_I(hi, lo) == <<hi \div 256, hi % 256, lo \div 256, lo % 256>>

\* The two 16-bit words of a non-negative model integer.
Words(n) == <<n \div 65536, n % 65536>>

\* struct.pack raises struct.error unless 0 <= number <= 4294967295.
InRange_I(hi, lo) == hi >= 0 /\ hi <= 65535 /\ lo >= 0 /\ lo <= 65535

(***************************************************************************)
(* zlib.crc32: the standard reflected CRC-32 (polynomial 0xEDB88320,       *)
(* initial value 0xFFFFFFFF, final inversion), on bit vectors.             *)
(***************************************************************************)
CrcPolyHi == 60856
CrcPolyLo == 33568

PolyBit(i) == IF i < 16 THEN (CrcPolyLo \div Pow2(i)) % 2
                        ELSE (CrcPolyHi \div Pow2(i - 16)) % 2

Xor(a, b) == (a + b) % 2

\* The 32-bit vector whose bit i is F(i); bit i is element i + 1.
Vec(F(_)) ==
    <<F(0), F(1), F(2), F(3), F(4), F(5), F(6), F(7),
      F(8), F(9), F(10), F(11), F(12), F(13), F(14), F(15),
      F(16), F(17), F(18), F(19), F(20), F(21), F(22), F(23),
      F(24), F(25), F(26), F(27), F(28), F(29), F(30), F(31)>>

Poly == Vec(PolyBit)

\* One of the eight shift steps for a byte: crc >> 1, xor the polynomial
\* when the bit shifted out is set.
CrcShift(crc) ==
    IF crc[1] = 1
    THEN Vec(LAMBDA i : IF i = 31 THEN Poly[32] ELSE Xor(crc[i + 2], Poly[i + 1]))
    ELSE Vec(LAMBDA i : IF i = 31 THEN 0 ELSE crc[i + 2])

\* (the tests on Len make each intermediate vector a computed value)
RECURSIVE CrcShifts(_, _)
CrcShifts(crc, n) ==
    IF n = 0 THEN crc
    ELSE LET next == CrcShift(crc)
         IN  IF Len(next) = 32 THEN CrcShifts(next, n - 1) ELSE next

CrcByte(crc, b) ==
    CrcShifts(Vec(LAMBDA i : IF i < 8 THEN Xor(crc[i + 1], (b \div Pow2(i)) % 2)
                                      ELSE crc[i + 1]), 8)

RECURSIVE CrcBytes(_, _, _)
CrcBytes(crc, s, k) ==
    IF k > Len(s) THEN crc
    ELSE LET next == CrcByte(crc, s[k])
         IN  IF Len(next) = 32 THEN CrcBytes(next, s, k + 1) ELSE next

\* zlib.crc32(s) & 0xffffffff as a bit vector.
crc32(s) ==
    LET r == CrcBytes(Vec(LAMBDA i : 1), s, 1)
    IN  Vec(LAMBDA i : 1 - r[i + 1])

BitsByte(v, lo) ==
    v[lo + 1] + 2 * v[lo + 2] + 4 * v[lo + 3] + 8 * v[lo + 4] + 16 * v[lo + 5]
    + 32 * v[lo + 6] + 64 * v[lo + 7] + 128 * v[lo + 8]

\* struct.pack('>I', v) for a bit vector v.
pack_I_bits(v) ==
    <<BitsByte(v, 24), BitsByte(v, 16), BitsByte(v, 8), BitsByte(v, 0)>>

(***************************************************************************)
(* create_chunk(chunk_type, data)                                          *)
(***************************************************************************)
create_chunk_crc_with_length(chunk_type, data) ==
    LET length == pack_I(Words(Len(data))[1], Words(Len(data))[2])
        chunk_data == chunk_type \o data
        crc == pack_I_bits(crc32(length \o chunk_data))
    IN  length \o chunk_data \o crc

create_chunk(chunk_type, data) ==
    LET length == pack_I(Words(Len(data))[1], Words(Len(data))[2])
        chunk_data == chunk_type \o data
        crc == pack_I_bits(crc32(chunk_data))
    IN  length \o chunk_data \o crc

IHDR == <<73, 72, 68, 82>>
IDAT == <<73, 68, 65, 84>>
IEND == <<73, 69, 78, 68>>

(***************************************************************************)
(* struct.pack('>IIBBBBB', width, height, 8, 2, 0, 0, 0), the operands     *)
(* given as 16-bit word pairs.                                             *)
(***************************************************************************)
ihdr_pack_ok(w, h) == InRange_I(w[1], w[2]) /\ InRange_I(h[1], h[2])

ihdr_pack_swapped(w, h) ==
    pack_I(h[1], h[2]) \o pack_I(w[1], w[2]) \o <<8, 2, 0, 0, 0>>

ihdr_pack(w, h) ==
    pack_I(w[1], w[2]) \o pack_I(h[1], h[2]) \o <<8, 2, 0, 0, 0>>

(***************************************************************************)
(* zlib.compress(data, 9).  zlib is a library: the model keeps the zlib    *)
(* container the library emits at level 9 (header 78 DA, a DEFLATE body,   *)
(* the big-endian Adler-32 of the data) and writes the DEFLATE body as one *)
(* stored block, which is a valid encoding of the same data; the bit-level *)
(* Huffman coding zlib would choose is not modelled.                       *)
(***************************************************************************)
AdlerMod == 65521

RECURSIVE AdlerSums(_, _, _, _)
AdlerSums(s, k, a, b) ==
    IF k > Len(s) THEN <<b, a>>
    ELSE AdlerSums(s, k + 1, (a + s[k]) % AdlerMod,
                   (b + ((a + s[k]) % AdlerMod)) % AdlerMod)

adler32(s) == AdlerSums(s, 1, 1, 0)

zlib_compress(data) ==
    LET n == Len(data)
        ad == adler32(data)
    IN  <<120, 218>>
        \o <<1, n % 256, n \div 256, 255 - (n % 256), 255 - (n \div 256)>>
        \o data
        \o pack_I(ad[1], ad[2])

(***************************************************************************)
(* The gradient of create_png.  Python evaluates it in double precision;   *)
(* the model evaluates the same expressions in exact rational arithmetic   *)
(* and truncates toward zero as int() does.  For height <= 8, width <= 64  *)
(* and channels in -4..300 both give the same integers (checked by         *)
(* running the source over that whole range); the first height where       *)
(* double rounding differs is 9 (y = 7, channel 150: 114 against 115).     *)
(***************************************************************************)
Trunc(n, d) == IF n >= 0 THEN n \div d ELSE -((-n) \div d)

\* int(r * (1 - factor * 0.3)) with factor = y / height
row_channel_brighten(ch, y, height) ==
    Trunc(ch * (10 * height + 3 * y), 10 * height)

row_channel(ch, y, height) ==
    Trunc(ch * (10 * height - 3 * y), 10 * height)

\* int(r2 - (r2 * x_factor * 0.2)) with x_factor = x / width
col_channel(ch2, x, width) ==
    Trunc(ch2 * 10 * width - ch2 * x * 2, 10 * width)

Min(a, b) == IF a < b THEN a ELSE b
Max(a, b) == IF a > b THEN a ELSE b

\* max(0, min(255, v))
clamp(v) == Max(0, Min(255, v))

\* The three bytes appended for pixel x of a row.  rgb is the base colour
\* (r, g, b) and rgb2 the row's darkened colour (r2, g2, b2); both are in
\* scope at lines 37-41, and the code uses r2, g2, b2 only.
pixel_bytes_from_base(rgb, rgb2, x, width) ==
    <<clamp(col_channel(rgb[1], x, width)),
      clamp(col_channel(rgb[2], x, width)),
      clamp(col_channel(rgb[3], x, width))>>

pixel_bytes(rgb, rgb2, x, width) ==
    <<clamp(col_channel(rgb2[1], x, width)),
      clamp(col_channel(rgb2[2], x, width)),
      clamp(col_channel(rgb2[3], x, width))>>

\* image_data.append(0): the filter-type byte that starts a scanline
append_filter_missing(image_data) == image_data

append_filter(image_data) == Append(image_data, 0)

png_signature == <<137, 80, 78, 71, 13, 10, 26, 10>>

\* png_signature + ihdr_chunk + idat_chunk + iend_chunk
combine_idat_first(sig, ihdr_chunk, idat_chunk, iend_chunk) ==
    sig \o idat_chunk \o ihdr_chunk \o iend_chunk

combine(sig, ihdr_chunk, idat_chunk, iend_chunk) ==
    sig \o ihdr_chunk \o idat_chunk \o iend_chunk

(***************************************************************************)
(* Calls of create_png.  frame[c] is the stack frame of call c; pc is the  *)
(* source line the call is about to execute, args the values the caller    *)
(* passed, the other fields the locals of the same name.                   *)
(***************************************************************************)
Calls == {1, 2}

Other(c) == 3 - c

\* image_data = bytearray(): a fresh buffer owned by the call
new_image_data_shared(c) == frame[Other(c)].image_data

new_image_data(c) == <<>>

NewFrame(w, h, rgb) ==
    [pc |-> "L14", args |-> <<w, h, rgb>>,
     width |-> w, height |-> h, color_rgb |-> rgb,
     ihdr_chunk |-> <<>>, image_data |-> <<>>, y |-> 0, x |-> 0,
     rgb2 |-> <<0, 0, 0>>, idat_chunk |-> <<>>, iend_chunk |-> <<>>,
     png_data |-> <<>>, exc |-> ""]

IdleFrame == [NewFrame(0, 0, <<0, 0, 0>>) EXCEPT !.pc = "idle"]

\* lines 14-22: signature, IHDR chunk, empty image buffer
Begin(c) ==
    LET f == frame[c]
        w == Words(f.width)
        h == Words(f.height)
    IN  /\ f.pc = "L14"
        /\ frame' = [frame EXCEPT ![c] =
             IF ihdr_pack_ok(w, h)
             THEN [f EXCEPT !.ihdr_chunk = create_chunk(IHDR, ihdr_pack(w, h)),
                            !.image_data = new_image_data(c),
                            !.y = 0,
                            !.pc = "L24"]
             ELSE [f EXCEPT !.exc = "struct.error", !.pc = "raised"]]
        /\ UNCHANGED <<pk, ck, gc>>

\* lines 24-32: next row, filter byte, vertically darkened colour
RowBegin(c) ==
    LET f == frame[c]
    IN  /\ f.pc = "L24"
        /\ f.y < f.height
        /\ frame' = [frame EXCEPT ![c] =
             IF f.height = 0
             THEN [f EXCEPT !.exc = "ZeroDivisionError", !.pc = "raised"]
             ELSE [f EXCEPT !.image_data = append_filter(f.image_data),
                            !.rgb2 = <<row_channel(f.color_rgb[1], f.y, f.height),
                                       row_channel(f.color_rgb[2], f.y, f.height),
                                       row_channel(f.color_rgb[3], f.y, f.height)>>,
                            !.x = 0,
                            !.pc = "L34"]]
        /\ UNCHANGED <<pk, ck, gc>>

\* lines 34-41: one pixel of the row
Pixel(c) ==
    LET f == frame[c]
    IN  /\ f.pc = "L34"
        /\ f.x < f.width
        /\ frame' = [frame EXCEPT ![c] =
             IF f.width = 0
             THEN [f EXCEPT !.exc = "ZeroDivisionError", !.pc = "raised"]
             ELSE [f EXCEPT !.image_data =
                               f.image_data \o pixel_bytes(f.color_rgb, f.rgb2, f.x, f.width),
                            !.x = f.x + 1]]
        /\ UNCHANGED <<pk, ck, gc>>

\* line 34: range(width) exhausted, back to the row loop
RowEnd(c) ==
    LET f == frame[c]
    IN  /\ f.pc = "L34"
        /\ f.x >= f.width
        /\ frame' = [frame EXCEPT ![c] = [f EXCEPT !.y = f.y + 1, !.pc = "L24"]]
        /\ UNCHANGED <<pk, ck, gc>>

\* lines 24, 44-45: range(height) exhausted, compress, IDAT chunk
Compress(c) ==
    LET f == frame[c]
    IN  /\ f.pc = "L24"
        /\ f.y >= f.height
        /\ frame' = [frame EXCEPT ![c] =
             [f EXCEPT !.idat_chunk = create_chunk(IDAT, zlib_compress(f.image_data)),
                       !.pc = "L48"]]
        /\ UNCHANGED <<pk, ck, gc>>

\* lines 48-53: IEND chunk, concatenation, return
Finish(c) ==
    LET f == frame[c]
        iend == create_chunk(IEND, <<>>)
    IN  /\ f.pc = "L48"
        /\ frame' = [frame EXCEPT ![c] =
             [f EXCEPT !.iend_chunk = iend,
                       !.png_data = combine(png_signature, f.ihdr_chunk,
                                            f.idat_chunk, iend),
                       !.pc = "returned"]]
        /\ UNCHANGED <<pk, ck, gc>>

(***************************************************************************)
(* create_png, one call (Spec) and two interleaved calls (SpecPar).        *)
(***************************************************************************)
Dims == -1..MaxDim

ValidColors ==
    {<<102, 126, 234>>, <<0, 0, 0>>, <<255, 255, 255>>}
    \cup {<<(k * 37) % 256, 255 - ((k * 37) % 256), (k * 101 + 9) % 256>> : k \in 0..11}

InvalidColors == {<<300, 126, 234>>, <<102, -4, 234>>, <<256, 0, -1>>}

Colors == ValidColors \cup InvalidColors

NoPack == [pc |-> "idle", w |-> <<0, 0>>, h |-> <<0, 0>>, out |-> <<>>, exc |-> ""]
NoChunk == [pc |-> "idle", chunk_type |-> <<>>, data |-> <<>>, out |-> <<>>]
NoCategory ==
    [pc |-> "idle", items |-> <<>>, files |-> <<>>, idx |-> 0,
     success_count |-> 0, skip_count |-> 0, fail_count |-> 0, trace |-> {}]

Init ==
    /\ \E w \in Dims, h \in Dims, rgb \in Colors :
         frame = [c \in Calls |-> IF c = 1 THEN NewFrame(w, h, rgb) ELSE IdleFrame]
    /\ pk = NoPack
    /\ ck = NoChunk
    /\ gc = NoCategory

ParDims == 1..ParMaxDim

ParColors == {<<102, 126, 234>>, <<255, 0, 77>>}

InitPar ==
    /\ \E w1 \in ParDims, h1 \in ParDims, rgb1 \in ParColors,
          w2 \in ParDims, h2 \in ParDims, rgb2 \in ParColors :
         frame = [c \in Calls |-> IF c = 1 THEN NewFrame(w1, h1, rgb1)
                                           ELSE NewFrame(w2, h2, rgb2)]
    /\ pk = NoPack
    /\ ck = NoChunk
    /\ gc = NoCategory

Next ==
    \E c \in Calls :
        \/ Begin(c)
        \/ RowBegin(c)
        \/ Pixel(c)
        \/ RowEnd(c)
        \/ Compress(c)
        \/ Finish(c)

Spec == Init /\ [][Next]_vars

SpecPar == InitPar /\ [][Next]_vars

(***************************************************************************)
(* struct.pack of the IHDR payload over the whole unsigned 32-bit range    *)
(* (SpecIHDR).  Operands are word pairs; hi = 65536 stands for 2^32.       *)
(***************************************************************************)
WideValues ==
    {<<0, 0>>, <<0, 1>>, <<0, 192>>, <<0, 255>>, <<0, 256>>, <<0, 65535>>,
     <<1, 0>>, <<255, 65535>>, <<256, 0>>, <<32767, 65535>>, <<32768, 0>>,
     <<65535, 65535>>, <<65536, 0>>}

InitIHDR ==
    /\ \E w \in WideValues, h \in WideValues :
         pk = [pc |-> "L17", w |-> w, h |-> h, out |-> <<>>, exc |-> ""]
    /\ frame = [c \in Calls |-> IdleFrame]
    /\ ck = NoChunk
    /\ gc = NoCategory

\* line 17
PackIHDR ==
    /\ pk.pc = "L17"
    /\ pk' = IF ihdr_pack_ok(pk.w, pk.h)
             THEN [pk EXCEPT !.out = ihdr_pack(pk.w, pk.h), !.pc = "packed"]
             ELSE [pk EXCEPT !.exc = "struct.error", !.pc = "raised"]
    /\ UNCHANGED <<frame, ck, gc>>

NextIHDR == PackIHDR

SpecIHDR == InitIHDR /\ [][NextIHDR]_vars

(***************************************************************************)
(* create_chunk on arbitrary tags and payloads (SpecChunk).                *)
(***************************************************************************)
Tags == {IHDR, IDAT, IEND, <<116, 69, 88, 116>>}

PayloadBytes == {0, 73, 255}

Payloads == UNION {[1..n -> PayloadBytes] : n \in 0..MaxPayload}

InitChunk ==
    /\ \E t \in Tags, d \in Payloads :
         ck = [pc |-> "L57", chunk_type |-> t, data |-> d, out |-> <<>>]
    /\ frame = [c \in Calls |-> IdleFrame]
    /\ pk = NoPack
    /\ gc = NoCategory

\* lines 55-60
CreateChunk ==
    /\ ck.pc = "L57"
    /\ ck' = [ck EXCEPT !.out = create_chunk(ck.chunk_type, ck.data),
                        !.pc = "returned"]
    /\ UNCHANGED <<frame, pk, gc>>

NextChunk == CreateChunk

SpecChunk == InitChunk /\ [][NextChunk]_vars

(***************************************************************************)
(* generate_category (SpecCategory).  An item is identified by the stem of *)
(* its filename: output_file.with_suffix('.png') and the two paths         *)
(* save_image writes depend on the stem only.  files[<<stem, fmt>>] is -1  *)
(* when the file is absent, 0 when it was there before the run, and i when *)
(* item i wrote it last.  trace records what each iteration did.           *)
(***************************************************************************)
Stems == {"cat", "dog"}

Paths == Stems \X {"png", "webp"}

ItemLists == UNION {[1..n -> Stems] : n \in 0..MaxItems}

InitCategory ==
    /\ \E items \in ItemLists, existing \in SUBSET Paths :
         gc = [pc |-> "L261", items |-> items,
               files |-> [p \in Paths |-> IF p \in existing THEN 0 ELSE -1],
               idx |-> 1, success_count |-> 0, skip_count |-> 0,
               fail_count |-> 0, trace |-> {}]
    /\ frame = [c \in Calls |-> IdleFrame]
    /\ pk = NoPack
    /\ ck = NoChunk

\* output_file.with_suffix('.png').exists()
png_exists(files, stem) == files[<<stem, "png">>] # -1

\* lines 268-270: count the skip and continue with the next item
skip_item_no_continue(g) ==
    [g EXCEPT !.skip_count = @ + 1,
              !.trace = @ \cup {<<"skip", g.idx, g.files[<<g.items[g.idx], "png">>],
                                  g.files[<<g.items[g.idx], "webp">>]>>},
              !.pc = "L273"]

skip_item(g) ==
    [g EXCEPT !.skip_count = @ + 1,
              !.trace = @ \cup {<<"skip", g.idx, g.files[<<g.items[g.idx], "png">>],
                                  g.files[<<g.items[g.idx], "webp">>]>>},
              !.idx = @ + 1]

\* lines 261-270: next item; skip it when its .png exists
NextItem ==
    /\ gc.pc = "L261"
    /\ gc.idx <= Len(gc.items)
    /\ gc' = IF png_exists(gc.files, gc.items[gc.idx])
             THEN skip_item(gc)
             ELSE [gc EXCEPT !.pc = "L273"]
    /\ UNCHANGED <<frame, pk, ck>>

\* lines 273-275, 291-292: generate_image returns an image or None
GenerateImage ==
    /\ gc.pc = "L273"
    /\ \E image \in BOOLEAN :
         gc' = IF image
               THEN [gc EXCEPT !.trace = @ \cup {<<"generate", gc.idx>>},
                               !.pc = "L283"]
               ELSE [gc EXCEPT !.trace = @ \cup {<<"generate", gc.idx>>},
                               !.fail_count = @ + 1,
                               !.idx = @ + 1,
                               !.pc = "L261"]
    /\ UNCHANGED <<frame, pk, ck>>

\* lines 277-290 and save_image (206-226): both formats written, then counted
SaveImage ==
    /\ gc.pc = "L283"
    /\ gc' = [gc EXCEPT
                !.files = [p \in Paths |->
                             IF p[1] = gc.items[gc.idx] THEN gc.idx ELSE gc.files[p]],
                !.success_count = @ + 1,
                !.idx = @ + 1,
                !.pc = "L261"]
    /\ UNCHANGED <<frame, pk, ck>>

\* lines 261, 296-299: items exhausted, summary printed
Summary ==
    /\ gc.pc = "L261"
    /\ gc.idx > Len(gc.items)
    /\ gc' = [gc EXCEPT !.pc = "done"]
    /\ UNCHANGED <<frame, pk, ck>>

NextCategory == NextItem \/ GenerateImage \/ SaveImage \/ Summary

SpecCategory == InitCategory /\ [][NextCategory]_vars

(***************************************************************************)
(* Reading a PNG stream back: the checks below decode the produced bytes   *)
(* instead of comparing them with the encoder's own intermediate values.   *)
(***************************************************************************)
DecodeWords(s, k) == <<s[k] * 256 + s[k + 1], s[k + 2] * 256 + s[k + 3]>>

DecodeLen(s, k) == DecodeWords(s, k)[1] * 65536 + DecodeWords(s, k)[2]

BadChunk == [type |-> <<>>, data |-> <<>>, crc |-> <<>>]

\* the chunks of stream s from offset k on; BadChunk where the framing breaks
RECURSIVE ParseChunks(_, _)
ParseChunks(s, k) ==
    IF k > Len(s) THEN <<>>
    ELSE IF k + 11 > Len(s) THEN <<BadChunk>>
    ELSE LET n == DecodeLen(s, k)
         IN  IF k + 11 + n > Len(s) THEN <<BadChunk>>
             ELSE <<[type |-> SubSeq(s, k + 4, k + 7),
                     data |-> SubSeq(s, k + 8, k + 7 + n),
                     crc  |-> SubSeq(s, k + 8 + n, k + 11 + n)]>>
                  \o ParseChunks(s, k + 12 + n)

ValidChannel(v) == v >= 0 /\ v <= 255

ValidColor(rgb) == ValidChannel(rgb[1]) /\ ValidChannel(rgb[2]) /\ ValidChannel(rgb[3])

ValidArgs(f) == f.width >= 1 /\ f.height >= 1 /\ ValidColor(f.color_rgb)

RowLen(f) == 1 + f.width * 3

\* index in image_data of channel ch (1..3) of pixel (x, y)
PixelIndex(f, x, y, ch) == y * RowLen(f) + 1 + 3 * x + ch

RasterDone(f) == f.pc \in {"L48", "returned"}

(***************************************************************************)
(* C1.  For valid width, height and base colour the bytes create_png       *)
(* returns are the 8-byte signature 89 50 4E 47 0D 0A 1A 0A followed by    *)
(* well-framed chunks and nothing else: the first is IHDR, the last is     *)
(* IEND (length 0, CRC AE 42 60 82), every chunk between them is IDAT and  *)
(* there is at least one, and every chunk carries the CRC-32 of its type   *)
(* and data.                                                               *)
(***************************************************************************)
C1_StreamLayout ==
    \A c \in Calls :
        (frame[c].pc = "returned" /\ ValidArgs(frame[c])) =>
            LET out == frame[c].png_data
                chunks == ParseChunks(out, 9)
                n == Len(chunks)
            IN  /\ Len(out) >= 8
                /\ SubSeq(out, 1, 8) = <<137, 80, 78, 71, 13, 10, 26, 10>>
                /\ n >= 3
                /\ \A i \in 1..n : chunks[i] # BadChunk
                /\ chunks[1].type = IHDR
                /\ Len(chunks[1].data) = 13
                /\ \A i \in 2..(n - 1) : chunks[i].type = IDAT
                /\ chunks[n].type = IEND
                /\ chunks[n].data = <<>>
                /\ chunks[n].crc = <<174, 66, 96, 130>>
                /\ \A i \in 1..n :
                       chunks[i].crc = pack_I_bits(crc32(chunks[i].type \o chunks[i].data))

C1_Witness ==
    /\ frame[1].pc = "returned"
    /\ frame[1].width = 2 /\ frame[1].height = 2
    /\ frame[1].color_rgb = <<102, 126, 234>>
    /\ Len(ParseChunks(frame[1].png_data, 9)) = 3

(***************************************************************************)
(* C2.  A call with width <= 0 or height <= 0 fails with an error and the  *)
(* caller never receives PNG bytes.                                        *)
(***************************************************************************)
C2_InvalidDimensionFails ==
    \A c \in Calls :
        (frame[c].pc # "idle" /\ (frame[c].width <= 0 \/ frame[c].height <= 0)) =>
            /\ frame[c].pc # "returned"
            /\ frame[c].png_data = <<>>

(***************************************************************************)
(* C3.  A call whose base colour has a channel outside [0,255] fails with  *)
(* an error and returns no PNG bytes (it does not clamp the channel and    *)
(* produce an image).                                                      *)
(***************************************************************************)
C3_InvalidColorFails ==
    \A c \in Calls :
        (frame[c].width >= 1 /\ frame[c].height >= 1
         /\ ~ValidColor(frame[c].color_rgb)) =>
            /\ frame[c].pc # "returned"
            /\ frame[c].png_data = <<>>

(***************************************************************************)
(* C4.  For width and height in [1, 2^32 - 1] the IHDR payload is 13 bytes *)
(* and decodes (two big-endian u32, five single bytes) to the supplied     *)
(* width and height, then 8, 2, 0, 0, 0.                                   *)
(***************************************************************************)
InU32From1(v) == v[1] <= 65535 /\ v # <<0, 0>>

C4_IhdrRoundTrip ==
    (pk.pc \in {"packed", "raised"} /\ InU32From1(pk.w) /\ InU32From1(pk.h)) =>
        /\ pk.pc = "packed"
        /\ Len(pk.out) = 13
        /\ DecodeWords(pk.out, 1) = pk.w
        /\ DecodeWords(pk.out, 5) = pk.h
        /\ SubSeq(pk.out, 9, 13) = <<8, 2, 0, 0, 0>>

C4_Witness ==
    /\ pk.pc = "packed"
    /\ pk.w = <<32768, 0>>
    /\ pk.h = <<65535, 65535>>
    /\ SubSeq(pk.out, 1, 8) = <<128, 0, 0, 0, 255, 255, 255, 255>>

C6_ChunkLayout ==
    ck.pc = "returned" =>
        LET n == Len(ck.data)
            out == ck.out
        IN  /\ Len(out) = n + 12
            /\ DecodeLen(out, 1) = n
            /\ SubSeq(out, 5, 8) = ck.chunk_type
            /\ SubSeq(out, 9, 8 + n) = ck.data
            /\ SubSeq(out, n + 9, n + 12) = pack_I_bits(crc32(ck.chunk_type \o ck.data))
            /\ (ck.chunk_type = IEND /\ n = 0) =>
                   out = <<0, 0, 0, 0, 73, 69, 78, 68, 174, 66, 96, 130>>
            /\ SubSeq(out, n + 9, n + 12) # pack_I_bits(crc32(SubSeq(out, 1, 8 + n)))

C6_Witness ==
    /\ ck.pc = "returned"
    /\ ck.chunk_type = IDAT
    /\ ck.data = <<0, 73, 255>>
    /\ Len(ck.out) = 15

(***************************************************************************)
(* C7.  For a valid base colour every emitted channel of pixel (x, y) is   *)
(* the channel c reduced twice in sequence: v = trunc(c * (1 - 0.3 *       *)
(* y / height)), then trunc(v - v * 0.2 * x / width) computed from the     *)
(* truncated v, then clamped to [0,255]; pixel (0, 0) is the base colour.  *)
(***************************************************************************)
C7_Vertical(c, y, h) == (c * (10 * h - 3 * y)) \div (10 * h)

C7_Horizontal(v, x, w) == (v * (5 * w - x)) \div (5 * w)

C8_RasterInvariant ==
    \A c \in Calls :
        (frame[c].pc # "idle" /\ ValidArgs(frame[c])) =>
            LET f == frame[c]
            IN  /\ \A i \in 1..Len(f.image_data) : f.image_data[i] \in 0..255
                /\ RasterDone(f) =>
                     /\ Len(f.image_data) - f.height = 3 * f.width * f.height
                     /\ \A y \in 0..(f.height - 1), x \in 0..(f.width - 1), ch \in 1..3 :
                            /\ f.image_data[PixelIndex(f, x, y, ch)] <= f.color_rgb[ch]
                            /\ f.image_data[PixelIndex(f, x, y, ch)] =
                                   col_channel(row_channel(f.color_rgb[ch], y, f.height),
                                               x, f.width)

C8_Witness ==
    /\ frame[1].pc = "returned"
    /\ frame[1].width = 3 /\ frame[1].height = 2
    /\ frame[1].color_rgb = <<255, 255, 255>>
    /\ Len(frame[1].image_data) = 20

SameArgs(f, g) == f.args = g.args

(***************************************************************************)
(* C9.  The bytes create_png returns depend on its arguments only: two     *)
(* calls with the same arguments, run interleaved step by step, return     *)
(* identical bytes, and no call changes its arguments.                     *)
(***************************************************************************)
C9_Deterministic ==
    /\ \A c, d \in Calls :
           (frame[c].pc = "returned" /\ frame[d].pc = "returned"
            /\ SameArgs(frame[c], frame[d])) =>
               frame[c].png_data = frame[d].png_data
    /\ \A c \in Calls :
           <<frame[c].width, frame[c].height, frame[c].color_rgb>> = frame[c].args

C9_Witness ==
    /\ frame[1].pc = "returned" /\ frame[2].pc = "returned"
    /\ SameArgs(frame[1], frame[2])
    /\ frame[1].width = 2 /\ frame[1].height = 2
    /\ Len(frame[1].png_data) > 8
    /\ frame[1].png_data = frame[2].png_data

(***************************************************************************)
(* C10.  In generate_category every item is counted in exactly one of      *)
(* success_count, skip_count, fail_count (their sum is the number of items *)
(* handled so far and the number of items when the loop has ended), and an *)
(* item whose .png exists is only counted as skipped: generate_image is    *)
(* not called for it and its output files stay as they were.               *)
(***************************************************************************)
Counted(g) == g.success_count + g.skip_count + g.fail_count

====
